---------------------------- MODULE Spec2Model ----------------------------
(***************************************************************************)
(* ResQ-AI agentic dispatcher: the resilient Gemini invoker (model chain   *)
(* and rate-limit backoff), the deterministic relief planner, the          *)
(* Dispatch / Resource / Summary / Decision agents and the A2A             *)
(* orchestrator that drives one envelope through them.                     *)
(*                                                                         *)
(* Python values are tagged records (PyStr, PyNone, PyInt, PyList); text   *)
(* is a TLA+ string, so lengths, prefixes and concatenations are computed. *)
(***************************************************************************)
EXTENDS Integers, Sequences, FiniteSets, TLC

VARIABLES
    GOOGLE_API_KEY,         \* agents.py:79  TRUE iff a credential is configured
    USE_GEMINI,             \* agents.py:83  the feature flag
    now,                    \* the wall clock read by time.time()
    gemini_backoff_until,   \* agents.py:85  _gemini_backoff_until
    inv,                    \* the _run_gemini invocation of the running agent
    pc,                     \* position of A2AOrchestrator.orchestrate
    envelope,               \* the MessageEnvelope of the current run
    unit_status,            \* relief_tools.py:48  _UNIT_STATUS
    history,                \* DecisionAgent.history of the singleton
    submitted,              \* every decision record ever appended, in order
    runs,                   \* pipeline runs started so far
    issued,                 \* backend calls issued since the run started,
                            \* counted where the invoker is driven on its own
    tool,                   \* the last relief_tools call and what it returned
    workers                 \* per thread inside the DecisionAgent: its position
                            \* and the list its slice expression built

vars == <<GOOGLE_API_KEY, USE_GEMINI, now, gemini_backoff_until, inv, pc,
          envelope, unit_status, history, submitted, runs, issued, tool,
          workers>>

---------------------------------------------------------------------------
(* Bounds of the model.                                                    *)

\* the clock stops advancing at this time
MaxTime == 45
\* pipeline runs (orchestrate calls) per behaviour
MaxRuns == 1
\* decisions submitted to the DecisionAgent per behaviour
MaxDecisions == 15
\* the first MaxVaried decisions draw their action from every input, the
\* later ones are SEND
MaxVaried == 4
\* decisions submitted by concurrent threads per behaviour
MaxAppends == 12
\* polls of the latest incident per behaviour
MaxPolls == 11
\* decisions submitted before the polls per behaviour
MaxPollDecisions == 2

\* the clock advances between steps by one of these amounts
TickSteps == {30, 45}

---------------------------------------------------------------------------
(* Python values.                                                          *)

PyStr(s) == [t |-> "str", s |-> s]
PyInt(i) == [t |-> "int", i |-> i]
PyList(l) == [t |-> "list", l |-> l]
PyNone == [t |-> "none"]

\* bool(v), as `not v` / `v or default` use it
Truthy(v) ==
    CASE v.t = "str" -> v.s # ""
      [] v.t = "int" -> v.i # 0
      [] v.t = "list" -> v.l # <<>>
      [] OTHER -> FALSE

\* d.get(k, default) on a mapping with string keys
DictGet(d, k, default) == IF k \in DOMAIN d THEN d[k] ELSE default

\* d[k] = v
DictSet(d, k, v) == [x \in (DOMAIN d) \cup {k} |-> IF x = k THEN v ELSE d[x]]

EmptyDict == [x \in {} |-> PyNone]

---------------------------------------------------------------------------
(* Text.                                                                   *)

CharAt(s, i) == SubSeq(s, i, i)

\* s.startswith(p)
StartsWith(s, p) == Len(s) >= Len(p) /\ SubSeq(s, 1, Len(p)) = p

\* sub in s
Contains(s, sub) ==
    \E i \in 1..(Len(s) - Len(sub) + 1) : SubSeq(s, i, i + Len(sub) - 1) = sub

IsSpace(c) == c \in {" ", "\t", "\n", "\r"}

RECURSIVE LStrip(_)
LStrip(s) ==
    IF s # "" /\ IsSpace(CharAt(s, 1)) THEN LStrip(SubSeq(s, 2, Len(s))) ELSE s

RECURSIVE RStrip(_)
RStrip(s) ==
    IF s # "" /\ IsSpace(CharAt(s, Len(s)))
    THEN RStrip(SubSeq(s, 1, Len(s) - 1))
    ELSE s

\* s.strip()
Strip(s) == RStrip(LStrip(s))

LowerChar(c) ==
    CASE c = "A" -> "a" [] c = "B" -> "b" [] c = "C" -> "c" [] c = "D" -> "d"
      [] c = "E" -> "e" [] c = "F" -> "f" [] c = "G" -> "g" [] c = "H" -> "h"
      [] c = "I" -> "i" [] c = "J" -> "j" [] c = "K" -> "k" [] c = "L" -> "l"
      [] c = "M" -> "m" [] c = "N" -> "n" [] c = "O" -> "o" [] c = "P" -> "p"
      [] c = "Q" -> "q" [] c = "R" -> "r" [] c = "S" -> "s" [] c = "T" -> "t"
      [] c = "U" -> "u" [] c = "V" -> "v" [] c = "W" -> "w" [] c = "X" -> "x"
      [] c = "Y" -> "y" [] c = "Z" -> "z" [] OTHER -> c

\* s.lower()
RECURSIVE Lower(_)
Lower(s) ==
    IF s = "" THEN "" ELSE LowerChar(CharAt(s, 1)) \o Lower(SubSeq(s, 2, Len(s)))

\* "".join(parts)
RECURSIVE Join(_)
Join(parts) == IF parts = <<>> THEN "" ELSE Head(parts) \o Join(Tail(parts))

\* sep.join(parts)
RECURSIVE JoinSep(_, _)
JoinSep(sep, parts) ==
    IF parts = <<>> THEN ""
    ELSE IF Len(parts) = 1 THEN Head(parts)
    ELSE Head(parts) \o sep \o JoinSep(sep, Tail(parts))

\* f"{v}" of a Python value
Fmt(v) ==
    CASE v.t = "str" -> v.s
      [] v.t = "int" -> ToString(v.i)
      [] v.t = "none" -> "None"

---------------------------------------------------------------------------
(* The text-generation backend: what one generate_content call can do.     *)

TextEmpty == ""
TextBlank == "  "
TextProse == "Send the nearest engine."
TextLongProse == "Structure fire reported in Sector 7, send the two nearest engines."
TextDispatchJson == "{\"summary\": \"Fire in Sector 7\", \"recommendation\": \"Send Fire-1\"}"
TextNoRecommendation == "{\"summary\": \"Fire in Sector 7\"}"
TextEmptySummary == "{\"summary\": \"\", \"recommendation\": \"Send Fire-1\"}"
TextIntSummary == "{\"summary\": 5, \"recommendation\": \"Send Fire-1\"}"
TextJsonArray == "[1]"
TextResourceJson == "{\"resources\": [\"Fire-1\"], \"summary\": \"One engine\"}"
TextNoSummaryResources == "{\"resources\": [\"Fire-1\"]}"
TextEmptyResources == "{\"resources\": [], \"summary\": \"None free\"}"
TextStrResources == "{\"resources\": \"Fire-1\"}"

\* the texts an agent's prompt can be answered with: nothing, prose, the JSON
\* object it asked for, that object with fields missing, empty or of another
\* type, JSON that is no object
ResponseTexts(agent) ==
    CASE agent = "ResQ-Agent" ->
           {TextEmpty, TextBlank, TextProse, TextDispatchJson, TextNoRecommendation,
            TextEmptySummary, TextIntSummary, TextJsonArray}
      [] agent = "Resource-Agent" ->
           {TextEmpty, TextProse, TextResourceJson, TextNoSummaryResources,
            TextEmptyResources, TextStrResources, TextJsonArray}
      [] agent = "Summary-Agent" ->
           {TextEmpty, TextBlank, TextProse, TextLongProse}

\* a response object: its .text attribute and its candidates, each candidate
\* given by the texts of its content parts
Responses(agent) ==
    {[text |-> PyStr(t), candidates |-> <<>>] : t \in ResponseTexts(agent)}
    \cup {[text |-> PyNone, candidates |-> <<>>],
          [text |-> PyNone, candidates |-> << <<"Send the ", "nearest engine. ">> >>]}

\* str(e) of the exception a call raises
ErrorMessages == {"429 Too Many Requests", "connection reset", ""}

\* json.loads(text) on the texts above; every other text of the model (empty,
\* prose, the '[Gemini ...]' sentinels) is not JSON and raises
JsonLoads(text) ==
    CASE text = TextDispatchJson ->
           [ok |-> TRUE, v |-> [t |-> "dict", d |->
              [summary |-> PyStr("Fire in Sector 7"), recommendation |-> PyStr("Send Fire-1")]]]
      [] text = TextNoRecommendation ->
           [ok |-> TRUE, v |-> [t |-> "dict", d |-> [summary |-> PyStr("Fire in Sector 7")]]]
      [] text = TextEmptySummary ->
           [ok |-> TRUE, v |-> [t |-> "dict", d |->
              [summary |-> PyStr(""), recommendation |-> PyStr("Send Fire-1")]]]
      [] text = TextIntSummary ->
           [ok |-> TRUE, v |-> [t |-> "dict", d |->
              [summary |-> PyInt(5), recommendation |-> PyStr("Send Fire-1")]]]
      [] text = TextJsonArray ->
           [ok |-> TRUE, v |-> PyList(<<PyInt(1)>>)]
      [] text = TextResourceJson ->
           [ok |-> TRUE, v |-> [t |-> "dict", d |->
              [resources |-> PyList(<<"Fire-1">>), summary |-> PyStr("One engine")]]]
      [] text = TextNoSummaryResources ->
           [ok |-> TRUE, v |-> [t |-> "dict", d |-> [resources |-> PyList(<<"Fire-1">>)]]]
      [] text = TextEmptyResources ->
           [ok |-> TRUE, v |-> [t |-> "dict", d |->
              [resources |-> PyList(<<>>), summary |-> PyStr("None free")]]]
      [] text = TextStrResources ->
           [ok |-> TRUE, v |-> [t |-> "dict", d |-> [resources |-> PyStr("Fire-1")]]]
      [] OTHER -> [ok |-> FALSE, v |-> PyNone]

---------------------------------------------------------------------------
(* The resilient invoker, agents.py:78-141.                                *)

GEMINI_BACKOFF_SECONDS == 45

DisabledSentinel == "[Gemini disabled]"

DispatchName == "ResQ-Agent"
ResourceName == "Resource-Agent"
SummaryName == "Summary-Agent"
DecisionName == "Decision-Agent"

LLMAgents == {DispatchName, ResourceName, SummaryName}

DISPATCH_MODEL_CHAIN ==
    <<"models/gemini-2.5-flash", "models/gemini-1.5-flash", "models/gemini-lite">>
RESOURCE_MODEL_CHAIN ==
    <<"models/gemini-2.5-pro", "models/gemini-1.5-pro", "models/gemini-1.5-flash">>
SUMMARY_MODEL_CHAIN ==
    <<"models/gemini-2.5-flash", "models/gemini-1.5-flash", "models/gemini-lite">>

\* the chain each agent hands to _run_gemini
ModelChain(agent) ==
    CASE agent = DispatchName -> DISPATCH_MODEL_CHAIN
      [] agent = ResourceName -> RESOURCE_MODEL_CHAIN
      [] agent = SummaryName -> SUMMARY_MODEL_CHAIN

\* the gate without its deadline test
gemini_available_NoDeadline == GOOGLE_API_KEY /\ USE_GEMINI

\* the gate without its feature-flag test
gemini_available_NoFlag == GOOGLE_API_KEY /\ now >= gemini_backoff_until

gemini_available ==
    GOOGLE_API_KEY /\ USE_GEMINI /\ now >= gemini_backoff_until

\* a signature test that does not lower-case the message
IsRateLimited_CaseSensitive(error_message) ==
    Contains(error_message, "429") \/ Contains(error_message, "quota")
    \/ Contains(error_message, "rate limit")

\* the rate-limit signature test of _trip_gemini_backoff
IsRateLimited(error_message) ==
    LET lower_msg == Lower(error_message)
    IN  Contains(lower_msg, "429") \/ Contains(lower_msg, "quota")
        \/ Contains(lower_msg, "rate limit")

\* the value of _gemini_backoff_until after _trip_gemini_backoff(error_message)
trip_gemini_backoff(error_message) ==
    IF IsRateLimited(error_message)
    THEN now + GEMINI_BACKOFF_SECONDS
    ELSE gemini_backoff_until

\* the text _run_gemini takes from a response, agents.py:129-136
ResponseText(response) ==
    LET text0 == response.text
        candidates == response.candidates
        text1 == IF ~Truthy(text0) /\ candidates # <<>> /\ candidates[1] # <<>>
                 THEN PyStr(Join(candidates[1]))
                 ELSE text0
        text2 == IF ~Truthy(text1) THEN "" ELSE text1.s
    IN  Strip(text2)

\* a sentinel that drops the failure prefix
ErrorSentinelBare(last_error) ==
    "[" \o (IF last_error # "" THEN last_error ELSE "unavailable") \o "]"

\* the error sentinel, agents.py:141
ErrorSentinel(last_error) ==
    "[Gemini error: " \o (IF last_error # "" THEN last_error ELSE "unavailable") \o "]"

\* no _run_gemini invocation is running
NoInvocation ==
    [agent |-> "none", phase |-> "none", idx |-> 0, last_error |-> "",
     result |-> "", until_at_start |-> 0, before_deadline |-> FALSE,
     calls |-> <<>>]

\* _run_gemini up to its loop: the availability gate, agents.py:121-123.
\* until_at_start and before_deadline record the deadline and the side of it
\* the invocation started on.
RunGeminiEnter(agent) ==
    LET entered == [NoInvocation EXCEPT !.agent = agent,
                       !.until_at_start = gemini_backoff_until,
                       !.before_deadline = (now < gemini_backoff_until)]
    IN  IF ~gemini_available
        THEN [entered EXCEPT !.phase = "returned", !.result = DisabledSentinel]
        ELSE IF ModelChain(agent) = <<>>
        THEN [entered EXCEPT !.phase = "returned", !.result = ErrorSentinel("")]
        ELSE [entered EXCEPT !.phase = "loop", !.idx = 1]

\* one backend call of the running invocation, as recorded in inv.calls:
\* the model called, the error it raised (None when it answered), the
\* response it gave (None when it raised) and whether the clock was before
\* the backoff deadline when the call was issued
CallRecord(agent, err, response) ==
    [model |-> ModelChain(agent)[inv.idx], err |-> err, response |-> response,
     in_backoff |-> (now < gemini_backoff_until)]

\* the except branch keeping the first error of the chain, not the last
AttemptRaisesKeepsFirst(agent, msg) ==
    LET kept == IF inv.calls = <<>> THEN msg ELSE inv.last_error
    IN  /\ gemini_backoff_until' = trip_gemini_backoff(msg)
        /\ inv' = IF inv.idx = Len(ModelChain(agent))
                  THEN [inv EXCEPT !.phase = "returned", !.last_error = kept,
                           !.result = ErrorSentinel(kept),
                           !.calls = Append(@, CallRecord(agent, PyStr(msg), PyNone))]
                  ELSE [inv EXCEPT !.idx = @ + 1, !.last_error = kept,
                           !.calls = Append(@, CallRecord(agent, PyStr(msg), PyNone))]

\* an except branch that gives the last model of the chain a second attempt
AttemptRaises_RetriesLast(agent, msg) ==
    /\ gemini_backoff_until' = trip_gemini_backoff(msg)
    /\ inv' = IF inv.idx = Len(ModelChain(agent)) /\ Len(inv.calls) >= inv.idx
              THEN [inv EXCEPT !.phase = "returned", !.last_error = msg,
                       !.result = ErrorSentinel(msg),
                       !.calls = Append(@, CallRecord(agent, PyStr(msg), PyNone))]
              ELSE IF inv.idx = Len(ModelChain(agent))
              THEN [inv EXCEPT !.last_error = msg,
                       !.calls = Append(@, CallRecord(agent, PyStr(msg), PyNone))]
              ELSE [inv EXCEPT !.idx = @ + 1, !.last_error = msg,
                       !.calls = Append(@, CallRecord(agent, PyStr(msg), PyNone))]

\* one iteration of the loop whose generate_content call raises, agents.py:137-140
AttemptRaises(agent, msg) ==
    /\ gemini_backoff_until' = trip_gemini_backoff(msg)
    /\ inv' = IF inv.idx = Len(ModelChain(agent))
              THEN [inv EXCEPT !.phase = "returned", !.last_error = msg,
                       !.result = ErrorSentinel(msg),
                       !.calls = Append(@, CallRecord(agent, PyStr(msg), PyNone))]
              ELSE [inv EXCEPT !.idx = @ + 1, !.last_error = msg,
                       !.calls = Append(@, CallRecord(agent, PyStr(msg), PyNone))]

\* one iteration of the loop whose call answers, agents.py:126-136
AttemptAnswers(agent, response) ==
    /\ gemini_backoff_until' = gemini_backoff_until
    /\ inv' = [inv EXCEPT !.phase = "returned", !.result = ResponseText(response),
                  !.calls = Append(@, CallRecord(agent, PyNone, response))]

---------------------------------------------------------------------------
(* The deterministic fallback planner, relief_tools.py.                    *)

UNIT_REGISTRY ==
    << [id |-> "Fire-1", type |-> "fire", location |-> "Station Alpha",
        capabilities |-> {"structure", "industrial"}, base_eta |-> 5],
       [id |-> "Fire-2", type |-> "fire", location |-> "Station Bravo",
        capabilities |-> {"wildfire", "structure"}, base_eta |-> 7],
       [id |-> "Ambulance-2", type |-> "ems", location |-> "Medic Hub",
        capabilities |-> {"medical", "triage"}, base_eta |-> 6],
       [id |-> "Rescue-3", type |-> "rescue", location |-> "Urban SAR",
        capabilities |-> {"collapse", "water"}, base_eta |-> 8] >>

UnitIds == {UNIT_REGISTRY[i].id : i \in 1..Len(UNIT_REGISTRY)}

\* _SECTOR_MODIFIERS.get(sector, 6)
SECTOR_MODIFIERS(sector) ==
    CASE sector = "sector 1" -> 3 [] sector = "sector 2" -> 4
      [] sector = "sector 3" -> 5 [] sector = "sector 4" -> 6
      [] sector = "sector 5" -> 7 [] sector = "sector 6" -> 8
      [] sector = "sector 7" -> 4 [] sector = "sector 8" -> 5
      [] OTHER -> 6

\* random.randint(-1, 1)
Jitters == {-1, 0, 1}

Max(a, b) == IF a >= b THEN a ELSE b

normalize(value) ==
    Lower(Strip(IF Truthy(value) THEN value.s ELSE "unknown"))

estimate_arrival_minutes(unit, location, jitter) ==
    LET sector == normalize(location)
        modifier == SECTOR_MODIFIERS(sector)
        eta == unit.base_eta
    IN  Max(3, eta + (modifier \div 2) + jitter)

\* a score without the bonus for the unit's type
score_unit_NoTypeBonus(unit, incident) ==
    LET incident_type == normalize(DictGet(incident, "type", PyNone))
        urgency == normalize(DictGet(incident, "urgency", PyNone))
    IN  (IF incident_type # "" /\ incident_type \in unit.capabilities THEN 4 ELSE 0)
        + (IF urgency \in {"critical", "high"} THEN 2 ELSE 0)

score_unit(unit, incident) ==
    LET incident_type == normalize(DictGet(incident, "type", PyNone))
        urgency == normalize(DictGet(incident, "urgency", PyNone))
    IN  (IF incident_type # "" /\ incident_type \in unit.capabilities THEN 4 ELSE 0)
        + (IF Contains(unit.type, incident_type) THEN 3 ELSE 0)
        + (IF urgency \in {"critical", "high"} THEN 2 ELSE 0)

\* list.sort(key=...): ascending by .key, equal keys keep their order
InsertStable(sorted, x) ==
    LET k == Cardinality({i \in 1..Len(sorted) : sorted[i].key <= x.key})
    IN  SubSeq(sorted, 1, k) \o <<x>> \o SubSeq(sorted, k + 1, Len(sorted))

RECURSIVE StableSort(_)
StableSort(s) ==
    IF s = <<>> THEN <<>>
    ELSE InsertStable(StableSort(SubSeq(s, 1, Len(s) - 1)), s[Len(s)])

\* the units of a sequence of [key, unit] pairs
Units(pairs) == [k \in 1..Len(pairs) |-> pairs[k].unit]

\* seq[:n]
Take(s, n) == SubSeq(s, 1, IF n < Len(s) THEN n ELSE Len(s))

\* dict(unit) with eta_minutes set, keyed by it for the sort
Enriched(unit, eta) ==
    [key |-> eta,
     unit |-> [id |-> unit.id, type |-> unit.type, location |-> unit.location,
               capabilities |-> unit.capabilities, base_eta |-> unit.base_eta,
               eta_minutes |-> eta]]

\* whether the loop of get_available_units appends the unit
IsCandidate(unit, status, unit_type) ==
    /\ status[unit.id].status = "available"
    /\ ~(Truthy(unit_type) /\ ~Contains(unit.type, normalize(unit_type)))

\* the loop of get_available_units from registry position i on: jit[id] is
\* the jitter drawn for unit id
RECURSIVE Candidates(_, _, _, _)
Candidates(i, status, unit_type, jit) ==
    IF i > Len(UNIT_REGISTRY) THEN <<>>
    ELSE (IF IsCandidate(UNIT_REGISTRY[i], status, unit_type)
          THEN <<Enriched(UNIT_REGISTRY[i],
                    estimate_arrival_minutes(UNIT_REGISTRY[i],
                        PyStr(UNIT_REGISTRY[i].location), jit[UNIT_REGISTRY[i].id]))>>
          ELSE <<>>)
         \o Candidates(i + 1, status, unit_type, jit)

\* candidates[:limit] if limit
Limited(candidates, limit) ==
    IF Truthy(limit) THEN Take(candidates, limit.i) ELSE candidates

get_available_units(status, unit_type, limit, jit) ==
    Limited(Units(StableSort(Candidates(1, status, unit_type, jit))), limit)

\* a loop that drops negative scores only
RankEntry_KeepsZero(unit, score) ==
    IF score < 0 THEN <<>> ELSE <<[key |-> 0 - score, unit |-> unit]>>

\* the (score, unit) pair the loop of recommend_units_for_incident appends
RankEntry(unit, score) ==
    IF score <= 0 THEN <<>> ELSE <<[key |-> 0 - score, unit |-> unit]>>

\* the loop of recommend_units_for_incident over the available units
RECURSIVE Ranked(_, _)
Ranked(units, incident) ==
    IF units = <<>> THEN <<>>
    ELSE RankEntry(Head(units), score_unit(Head(units), incident))
         \o Ranked(Tail(units), incident)

\* sort(key=score, reverse=True) keeps equal scores in their order
recommend_units_for_incident(status, incident, limit, jit) ==
    Take(Units(StableSort(Ranked(get_available_units(status, PyNone, PyNone, jit),
                                 incident))),
         limit)

\* details = incident.get("details") or incident.get("description") or ""
IncidentDetails(d1, d2) ==
    IF Truthy(d1) THEN d1 ELSE IF Truthy(d2) THEN d2 ELSE PyStr("")

\* the f-string of generate_incident_brief
BriefText(incident_type, location, urgency, details) ==
    Strip(Fmt(incident_type) \o " at " \o Fmt(location) \o " - urgency "
          \o Fmt(urgency) \o "."
          \o (IF Truthy(details) THEN " Details: " \o Fmt(details) ELSE ""))

generate_incident_brief(incident) ==
    BriefText(DictGet(incident, "type", PyStr("Incident")),
              DictGet(incident, "location", PyStr("unknown area")),
              DictGet(incident, "urgency", PyStr("CRITICAL")),
              IncidentDetails(DictGet(incident, "details", PyNone),
                              DictGet(incident, "description", PyNone)))

HoldRecommendation == "Hold and escalate to manual supervisor; no units free."

\* the description of one ranked unit in resource_summary
UnitDesc(unit) ==
    unit.id \o " (" \o unit.type \o ", ETA " \o ToString(unit.eta_minutes) \o "m)"

\* a synthesis that returns no resource_summary when no unit is ranked
Synthesis_NoHoldSummary(summary, ranked_units, location) ==
    IF ranked_units # <<>>
    THEN [summary |-> summary,
          recommendation |-> "Dispatch " \o ranked_units[1].id \o " to "
                             \o Fmt(location) \o ".",
          resources |-> [k \in 1..Len(ranked_units) |-> ranked_units[k].id],
          resource_summary |->
              "Primary assignments: "
              \o JoinSep(", ", [k \in 1..Len(ranked_units) |-> UnitDesc(ranked_units[k])])]
    ELSE [summary |-> summary,
          recommendation |-> HoldRecommendation,
          resources |-> <<>>]

\* a synthesis whose recommendation names the last ranked unit
Synthesis_RecommendsLast(summary, ranked_units, location) ==
    IF ranked_units # <<>>
    THEN [summary |-> summary,
          recommendation |-> "Dispatch " \o ranked_units[Len(ranked_units)].id
                             \o " to " \o Fmt(location) \o ".",
          resources |-> [k \in 1..Len(ranked_units) |-> ranked_units[k].id],
          resource_summary |->
              "Primary assignments: "
              \o JoinSep(", ", [k \in 1..Len(ranked_units) |-> UnitDesc(ranked_units[k])])]
    ELSE [summary |-> summary,
          recommendation |-> HoldRecommendation,
          resources |-> <<>>,
          resource_summary |-> "All units busy; advise manual review."]

\* plan_relief_response from its summary and ranked units on, lines 145-164
Synthesis(summary, ranked_units, location) ==
    IF ranked_units # <<>>
    THEN [summary |-> summary,
          recommendation |-> "Dispatch " \o ranked_units[1].id \o " to "
                             \o Fmt(location) \o ".",
          resources |-> [k \in 1..Len(ranked_units) |-> ranked_units[k].id],
          resource_summary |->
              "Primary assignments: "
              \o JoinSep(", ", [k \in 1..Len(ranked_units) |-> UnitDesc(ranked_units[k])])]
    ELSE [summary |-> summary,
          recommendation |-> HoldRecommendation,
          resources |-> <<>>,
          resource_summary |-> "All units busy; advise manual review."]

plan_relief_response(status, incident, limit, jit) ==
    Synthesis(generate_incident_brief(incident),
              recommend_units_for_incident(status, incident, limit, jit),
              DictGet(incident, "location", PyStr("the scene")))

\* a truncation that keeps 60 characters before the ellipsis
Truncated_Keeps60(message) ==
    IF Len(message) > 60 THEN SubSeq(message, 1, 60) \o "..." ELSE message

\* message[:57] + "..." if len(message) > 60 else message
Truncated(message) ==
    IF Len(message) > 60 THEN SubSeq(message, 1, 57) \o "..." ELSE message

format_display_alert(summary, recommendation, incident, urgency) ==
    LET urgency1 == IF Truthy(urgency) THEN urgency
                    ELSE DictGet(incident, "urgency", PyStr("CRITICAL"))
        location == DictGet(incident, "location", PyStr(""))
        incident_type == DictGet(incident, "type", PyStr(""))
        base == Strip(Fmt(urgency1) \o " " \o Fmt(incident_type) \o " " \o Fmt(location))
        tail == IF Truthy(recommendation) THEN recommendation ELSE summary
    IN  Truncated(Strip(base \o ": " \o Fmt(tail)))

---------------------------------------------------------------------------
(* Envelope and agents, agents.py:4-55 and 144-363.                        *)

\* MessageEnvelope(content=..., sender=..., receiver=...)
MessageEnvelope(content, sender, receiver) ==
    [content |-> content, sender |-> sender, receiver |-> receiver,
     trace |-> <<>>, context |-> EmptyDict]

\* an add_trace that puts the new entry first
add_trace_Prepends(env, agent, message) ==
    [env EXCEPT !.trace = <<[agent |-> agent, message |-> message]>> \o @]

\* envelope.add_trace(agent, message)
add_trace(env, agent, message) ==
    [env EXCEPT !.trace = Append(@, [agent |-> agent, message |-> message])]

\* the two assignments in the other order: the receiver is set first
Hop_ReceiverFirst(env, agent) ==
    [env EXCEPT !.sender = PyStr(agent), !.receiver = PyStr(agent)]

\* the two assignments of A2AOrchestrator.orchestrate before an agent runs
Hop(env, agent) == [env EXCEPT !.sender = env.receiver, !.receiver = PyStr(agent)]

SentinelPrefix == "[Gemini"

\* DispatchAgent._plan_dispatch on the invoker's text, fallback being what
\* plan_relief_response(incident) returns if called; raised = an exception
\* leaves the method
plan_dispatch(incident, llm_response, fallback) ==
    LET parsed == JsonLoads(llm_response)
        is_object == parsed.ok /\ parsed.v.t = "dict"
        summary == IF is_object THEN DictGet(parsed.v.d, "summary", PyStr(""))
                   ELSE PyStr(llm_response)
        recommendation == IF is_object
                          THEN DictGet(parsed.v.d, "recommendation", PyStr(""))
                          ELSE PyStr(llm_response)
    IN  IF ~Truthy(summary)
        THEN [raised |-> FALSE, summary |-> PyStr(fallback.summary),
              recommendation |-> PyStr(fallback.recommendation)]
        ELSE IF summary.t # "str"
        THEN [raised |-> TRUE, summary |-> summary, recommendation |-> recommendation]
        ELSE IF StartsWith(summary.s, SentinelPrefix)
        THEN [raised |-> FALSE, summary |-> PyStr(fallback.summary),
              recommendation |-> PyStr(fallback.recommendation)]
        ELSE [raised |-> FALSE, summary |-> summary, recommendation |-> recommendation]

\* a ResourceAgent that keeps whatever resources value an object carries
resource_plan_KeepsEmpty(incident, llm_response, fallback) ==
    LET parsed == JsonLoads(llm_response)
        is_object == parsed.ok /\ parsed.v.t = "dict"
    IN  IF ~is_object
        THEN [resources |-> PyList(fallback.resources),
              resource_summary |-> PyStr(fallback.resource_summary)]
        ELSE [resources |-> DictGet(parsed.v.d, "resources", PyList(<<>>)),
              resource_summary |-> DictGet(parsed.v.d, "summary", PyStr(""))]

\* the resources and resource_summary ResourceAgent.handle_envelope settles on
resource_plan(incident, llm_response, fallback) ==
    LET parsed == JsonLoads(llm_response)
        is_object == parsed.ok /\ parsed.v.t = "dict"
        resources == IF is_object THEN DictGet(parsed.v.d, "resources", PyList(<<>>))
                     ELSE PyList(<<>>)
        resource_summary == IF is_object THEN DictGet(parsed.v.d, "summary", PyStr(""))
                            ELSE PyStr(llm_response)
    IN  IF ~Truthy(resources)
           \/ (resources.t = "str" /\ StartsWith(resources.s, SentinelPrefix))
        THEN [resources |-> PyList(fallback.resources),
              resource_summary |-> PyStr(fallback.resource_summary)]
        ELSE [resources |-> resources, resource_summary |-> resource_summary]

\* SummaryAgent.summarize_for_display after the invoker returned response_text
summarize_for_display(summary, recommendation, urgency, incident, response_text) ==
    IF StartsWith(response_text, SentinelPrefix)
    THEN format_display_alert(summary, recommendation, incident, urgency)
    ELSE Strip(response_text)

HISTORY_LIMIT == 10

\* seq[-n:]
LastN(s, n) == SubSeq(s, Max(1, Len(s) - n + 1), Len(s))

\* a DecisionAgent that accepts SEND only
DecisionEntrySendOnly(action, incident_id) ==
    LET status == IF action = PyStr("SEND") THEN "success" ELSE "error"
        message == IF status = "success"
                   THEN "Action " \o Fmt(action) \o " processed"
                   ELSE "Unknown action: " \o Fmt(action)
    IN  [action |-> action, status |-> status, message |-> message,
         incident_id |-> incident_id, timestamp |-> now]

\* the record DecisionAgent builds for an action
DecisionEntry(action, incident_id) ==
    LET status == IF action \in {PyStr("SEND"), PyStr("HOLD")} THEN "success" ELSE "error"
        message == IF status = "success"
                   THEN "Action " \o Fmt(action) \o " processed"
                   ELSE "Unknown action: " \o Fmt(action)
    IN  [action |-> action, status |-> status, message |-> message,
         incident_id |-> incident_id, timestamp |-> now]

\* a history that records nothing for a missing action
HistoryAfter_SkipsMissing(entry) ==
    IF entry.action = PyNone THEN history
    ELSE SubSeq(Append(history, entry),
                Max(1, Len(history) + 2 - HISTORY_LIMIT), Len(history) + 1)

\* a truncation that keeps the oldest records instead of the newest
HistoryAfterKeepsOldest(entry) ==
    SubSeq(Append(history, entry), 1,
           IF Len(history) + 1 < HISTORY_LIMIT THEN Len(history) + 1 ELSE HISTORY_LIMIT)

\* self.history after append and truncation, agents.py:24-25
HistoryAfter(entry) == LastN(Append(history, entry), HISTORY_LIMIT)

\* the envelope DecisionAgent.handle_envelope returns
DecisionEnvelope(env) ==
    LET content == env.content
        entry == DecisionEntry(DictGet(content, "action", PyNone),
                               DictGet(content, "incident_id", PyNone))
        content1 == DictSet(DictSet(content, "decision_status", PyStr(entry.status)),
                            "decision_message", PyStr(entry.message))
    IN  [add_trace(env, DecisionName, entry) EXCEPT !.content = content1]

---------------------------------------------------------------------------
(* Inputs.                                                                 *)

IncidentFire ==
    [id |-> PyStr("INC-1"), type |-> PyStr("Fire"), location |-> PyStr("Sector 7"),
     urgency |-> PyStr("CRITICAL")]
IncidentBare == [id |-> PyStr("INC-2")]

Incidents == {IncidentFire, IncidentBare}

IncidentMedical ==
    [type |-> PyStr("medical"), urgency |-> PyStr("low"),
     details |-> PyStr("chest pain")]
IncidentUntyped ==
    [id |-> PyStr("INC-3"), location |-> PyStr("Sector 4"), urgency |-> PyStr("HIGH")]

\* the incidents state.active_incidents[-1] holds when the display polls
PolledIncidents == {IncidentFire, IncidentUntyped}

\* no relief_tools function has been called
NoCall == [op |-> "none"]

Available == [status |-> "available", incident_id |-> PyNone]
Assigned(incident_id) == [status |-> "assigned", incident_id |-> incident_id]

\* the threads that call the singleton DecisionAgent at the same time
Threads == {1, 2}

\* a thread outside the DecisionAgent
WorkerIdle == [pc |-> "idle", sliced |-> <<>>]

\* the unit-status snapshots a run can meet
UnitSnapshots == {[u \in UnitIds |-> Available]}

JitterDraws == [UnitIds -> Jitters]

\* plan_relief_response(incident) under every jitter draw, per snapshot
PlannerOutcomes ==
    [status \in UnitSnapshots |-> [incident \in Incidents \cup PolledIncidents |->
        {plan_relief_response(status, incident, 2, jit) : jit \in JitterDraws}]]

---------------------------------------------------------------------------
(* The pipeline: one orchestrate call at a time, its agents in order, the  *)
(* invoker of each agent one backend call per step, the clock in between.  *)

Init ==
    /\ GOOGLE_API_KEY \in BOOLEAN
    /\ USE_GEMINI \in BOOLEAN
    /\ now = 0
    /\ gemini_backoff_until = 0
    /\ inv = NoInvocation
    /\ pc = "idle"
    /\ envelope = MessageEnvelope(EmptyDict, PyNone, PyNone)
    /\ unit_status \in UnitSnapshots
    /\ history = <<>>
    /\ submitted = <<>>
    /\ runs = 0
    /\ issued = 0
    /\ tool = NoCall
    /\ workers = [t \in Threads |-> WorkerIdle]

\* time passes
Tick ==
    /\ \E d \in TickSteps : now + d <= MaxTime /\ now' = now + d
    /\ UNCHANGED <<workers, issued, tool, GOOGLE_API_KEY, USE_GEMINI,
                   gemini_backoff_until, inv, pc,
                   envelope, unit_status, history, submitted, runs>>

\* server.py new_incident: the envelope is built and handed to orchestrate
StartRun ==
    /\ pc \in {"idle", "done", "aborted"}
    /\ runs < MaxRuns
    /\ \E incident \in Incidents :
         envelope' = MessageEnvelope(
             [incident |-> incident,
              urgency |-> DictGet(incident, "urgency", PyStr("CRITICAL"))],
             PyStr("user"), PyNone)
    /\ pc' = DispatchName
    /\ inv' = NoInvocation
    /\ runs' = runs + 1
    /\ UNCHANGED <<workers, issued, tool, GOOGLE_API_KEY, USE_GEMINI,
                   now, gemini_backoff_until,
                   unit_status, history, submitted>>

\* orchestrate hands the envelope to an LLM agent, whose handle_envelope
\* reaches _run_gemini and its availability gate
AgentEnter ==
    /\ \E agent \in LLMAgents :
         /\ pc = agent
         /\ inv.phase = "none"
         /\ envelope' = Hop(envelope, agent)
         /\ inv' = RunGeminiEnter(agent)
    /\ UNCHANGED <<workers, issued, tool, GOOGLE_API_KEY, USE_GEMINI,
                   now, gemini_backoff_until, pc,
                   unit_status, history, submitted, runs>>

\* the next model of the chain is called and raises
ModelRaises ==
    /\ \E agent \in LLMAgents, msg \in ErrorMessages :
         /\ pc = agent
         /\ inv.agent = agent
         /\ inv.phase = "loop"
         /\ AttemptRaises(agent, msg)
    /\ UNCHANGED <<workers, issued, tool, GOOGLE_API_KEY, USE_GEMINI,
                   now, pc, envelope, unit_status,
                   history, submitted, runs>>

\* the next model of the chain is called and answers
ModelAnswers ==
    /\ \E agent \in LLMAgents :
       \E response \in Responses(agent) :
         /\ pc = agent
         /\ inv.agent = agent
         /\ inv.phase = "loop"
         /\ AttemptAnswers(agent, response)
    /\ UNCHANGED <<workers, issued, tool, GOOGLE_API_KEY, USE_GEMINI,
                   now, pc, envelope, unit_status,
                   history, submitted, runs>>

\* DispatchAgent.handle_envelope from the return of ask_gemini on
DispatchFinish ==
    /\ pc = DispatchName
    /\ inv.agent = DispatchName
    /\ inv.phase = "returned"
    /\ \E fallback \in PlannerOutcomes[unit_status][envelope.content.incident] :
         LET incident == DictGet(envelope.content, "incident", envelope.content)
             plan == plan_dispatch(incident, inv.result, fallback)
             content1 == DictSet(DictSet(DictSet(envelope.content,
                             "incident", incident),
                             "summary", plan.summary),
                             "recommendation", plan.recommendation)
         IN  IF plan.raised
             THEN pc' = "aborted" /\ envelope' = envelope
             ELSE /\ pc' = ResourceName
                  /\ envelope' = add_trace([envelope EXCEPT !.content = content1],
                                     DispatchName,
                                     [summary |-> plan.summary,
                                      recommendation |-> plan.recommendation])
    /\ inv' = NoInvocation
    /\ UNCHANGED <<workers, issued, tool, GOOGLE_API_KEY, USE_GEMINI,
                   now, gemini_backoff_until,
                   unit_status, history, submitted, runs>>

\* ResourceAgent.handle_envelope from the return of ask_gemini on
ResourceFinish ==
    /\ pc = ResourceName
    /\ inv.agent = ResourceName
    /\ inv.phase = "returned"
    /\ \E fallback \in PlannerOutcomes[unit_status][envelope.content.incident] :
         LET incident == DictGet(envelope.content, "incident", envelope.content)
             plan == resource_plan(incident, inv.result, fallback)
             content1 == DictSet(DictSet(envelope.content,
                             "resources", plan.resources),
                             "resource_summary", plan.resource_summary)
         IN  envelope' = add_trace([envelope EXCEPT !.content = content1],
                             ResourceName,
                             [resources |-> plan.resources,
                              resource_summary |-> plan.resource_summary])
    /\ pc' = SummaryName
    /\ inv' = NoInvocation
    /\ UNCHANGED <<workers, issued, tool, GOOGLE_API_KEY, USE_GEMINI,
                   now, gemini_backoff_until,
                   unit_status, history, submitted, runs>>

\* SummaryAgent.handle_envelope from the return of _run_gemini on
SummaryFinish ==
    /\ pc = SummaryName
    /\ inv.agent = SummaryName
    /\ inv.phase = "returned"
    /\ LET content == envelope.content
           display_summary == summarize_for_display(
               DictGet(content, "summary", PyStr("")),
               DictGet(content, "recommendation", PyStr("")),
               DictGet(content, "urgency", PyStr("CRITICAL")),
               DictGet(content, "incident", EmptyDict),
               inv.result)
       IN  envelope' = add_trace(
               [envelope EXCEPT !.content = DictSet(content, "display_summary",
                                                    PyStr(display_summary))],
               SummaryName, [display_summary |-> PyStr(display_summary)])
    /\ pc' = DecisionName
    /\ inv' = NoInvocation
    /\ UNCHANGED <<workers, issued, tool, GOOGLE_API_KEY, USE_GEMINI,
                   now, gemini_backoff_until,
                   unit_status, history, submitted, runs>>

\* orchestrate hands the envelope to the DecisionAgent, the last agent
DecisionFinish ==
    /\ pc = DecisionName
    /\ LET env == Hop(envelope, DecisionName)
           entry == DecisionEntry(DictGet(env.content, "action", PyNone),
                                  DictGet(env.content, "incident_id", PyNone))
       IN  /\ envelope' = DecisionEnvelope(env)
           /\ history' = HistoryAfter(entry)
           /\ submitted' = Append(submitted, entry)
    /\ pc' = "done"
    /\ UNCHANGED <<workers, issued, tool, GOOGLE_API_KEY, USE_GEMINI,
                   now, gemini_backoff_until, inv,
                   unit_status, runs>>

Next ==
    \/ Tick
    \/ StartRun
    \/ AgentEnter
    \/ ModelRaises
    \/ ModelAnswers
    \/ DispatchFinish
    \/ ResourceFinish
    \/ SummaryFinish
    \/ DecisionFinish

Spec == Init /\ [][Next]_vars

---------------------------------------------------------------------------
(* The DecisionAgent on its own: decisions submitted one after another to  *)
(* the singleton, through handle_envelope or the legacy handle_decision.   *)

DecisionActions == {PyStr("SEND"), PyStr("HOLD"), PyStr("MAYBE"), PyNone}

DecisionInputs ==
    IF Len(submitted) < MaxVaried THEN DecisionActions ELSE {PyStr("SEND")}

\* the content server.py incident_decision builds; a request without an
\* action carries None
DecisionContent(action, incident_id) ==
    [action |-> action, incident_id |-> incident_id]

\* decision_agent.handle_envelope(envelope); each submission is one time
\* unit after the one before
SubmitEnvelope ==
    /\ Len(submitted) < MaxDecisions
    /\ \E action \in DecisionInputs :
         LET env == MessageEnvelope(DecisionContent(action, PyStr("INC-1")),
                                    PyStr("user"), PyNone)
             entry == DecisionEntry(action, PyStr("INC-1"))
         IN  /\ envelope' = DecisionEnvelope(env)
             /\ history' = HistoryAfter(entry)
             /\ submitted' = Append(submitted, entry)
    /\ now' = now + 1
    /\ UNCHANGED <<workers, issued, tool, GOOGLE_API_KEY, USE_GEMINI,
                   gemini_backoff_until, inv, pc,
                   unit_status, runs>>

\* decision_agent.handle_decision(action, incident_id)
SubmitDecision ==
    /\ Len(submitted) < MaxDecisions
    /\ \E action \in DecisionInputs :
         LET entry == DecisionEntry(action, PyStr("INC-1"))
         IN  /\ history' = HistoryAfter(entry)
             /\ submitted' = Append(submitted, entry)
    /\ now' = now + 1
    /\ UNCHANGED <<workers, issued, tool, GOOGLE_API_KEY, USE_GEMINI,
                   gemini_backoff_until, inv, pc,
                   envelope, unit_status, runs>>

DecisionInit == Init /\ GOOGLE_API_KEY /\ USE_GEMINI

DecisionNext == SubmitEnvelope \/ SubmitDecision

SpecDecision == DecisionInit /\ [][DecisionNext]_vars

---------------------------------------------------------------------------
(* The display polling with no credential configured: every poll of        *)
(* /incident/latest runs the four agents on the latest incident, each LLM  *)
(* agent falls back; decisions arrived before the polling started.         *)

\* server.py get_latest_incident: the envelope is built and handed to
\* orchestrate
PollLatest ==
    /\ pc \in {"idle", "done"}
    /\ runs < MaxPolls
    /\ \E incident \in PolledIncidents :
         envelope' = MessageEnvelope(
             [incident |-> incident,
              urgency |-> DictGet(incident, "urgency", PyStr("CRITICAL"))],
             PyStr("user"), PyNone)
    /\ pc' = DispatchName
    /\ inv' = NoInvocation
    /\ runs' = runs + 1
    /\ UNCHANGED <<GOOGLE_API_KEY, USE_GEMINI, now, gemini_backoff_until,
                   unit_status, history, submitted, issued, tool, workers>>

\* a decision through handle_decision before the display starts polling
DecisionBeforePolls ==
    /\ pc = "idle"
    /\ Len(submitted) < MaxPollDecisions
    /\ SubmitDecision

PollInit == Init /\ ~GOOGLE_API_KEY /\ USE_GEMINI

PollNext ==
    \/ PollLatest
    \/ AgentEnter
    \/ DispatchFinish
    \/ ResourceFinish
    \/ SummaryFinish
    \/ DecisionFinish
    \/ DecisionBeforePolls

SpecPolls == PollInit /\ [][PollNext]_vars

---------------------------------------------------------------------------
(* The DecisionAgent under threads: handle_decision (the same two          *)
(* statements as in handle_envelope) one interpreter step at a time. The   *)
(* append is one step; the assignment self.history = self.history[-10:]    *)
(* is two, the slice that builds a new list and the store of that list.    *)

\* self.history.append(entry), agents.py:44
HandleDecisionAppend(t) ==
    /\ workers[t].pc = "idle"
    /\ Len(submitted) < MaxAppends
    /\ LET entry == DecisionEntry(PyStr("SEND"), PyStr("INC-1"))
       IN  /\ history' = Append(history, entry)
           /\ submitted' = Append(submitted, entry)
    /\ now' = now + 1
    /\ workers' = [workers EXCEPT ![t].pc = "appended"]
    /\ UNCHANGED <<GOOGLE_API_KEY, USE_GEMINI, gemini_backoff_until, inv, pc,
                   envelope, unit_status, runs, issued, tool>>

\* self.history[-10:], the right-hand side of agents.py:45
HandleDecisionSlice(t) ==
    /\ workers[t].pc = "appended"
    /\ workers' = [workers EXCEPT ![t] = [pc |-> "sliced",
                                          sliced |-> LastN(history, HISTORY_LIMIT)]]
    /\ UNCHANGED <<GOOGLE_API_KEY, USE_GEMINI, now, gemini_backoff_until, inv, pc,
                   envelope, unit_status, history, submitted, runs, issued, tool>>

\* self.history = <the list built>, the store of agents.py:45
HandleDecisionStore(t) ==
    /\ workers[t].pc = "sliced"
    /\ history' = workers[t].sliced
    /\ workers' = [workers EXCEPT ![t] = WorkerIdle]
    /\ UNCHANGED <<GOOGLE_API_KEY, USE_GEMINI, now, gemini_backoff_until, inv, pc,
                   envelope, unit_status, submitted, runs, issued, tool>>

ThreadsNext ==
    \E t \in Threads :
        \/ HandleDecisionAppend(t)
        \/ HandleDecisionSlice(t)
        \/ HandleDecisionStore(t)

SpecThreads == DecisionInit /\ [][ThreadsNext]_vars

---------------------------------------------------------------------------
(* The relief tools on their own: units are dispatched and released, and   *)
(* the planner is asked for a ranking or a plan on the snapshot reached.   *)

\* the incidents the planner is asked about
PlanIncidents == {IncidentFire, IncidentBare, IncidentMedical, IncidentUntyped}

\* the incidents units are dispatched to
DispatchIncidents == {IncidentFire, IncidentBare}

\* the unit ids callers pass, one of them not in the registry
CallerUnitIds == UnitIds \cup {"Engine-9"}

\* the limit arguments of recommend_units_for_incident
RankLimits == {2, 4}

\* the units a status map has as available
AvailableUnits(status) == {u \in UnitIds : status[u].status = "available"}

\* random.randint is drawn once per available unit
JitterDrawsFor(status) == [AvailableUnits(status) -> Jitters]

\* a notify_dispatch that builds its record and leaves _UNIT_STATUS alone
notify_dispatch_RecordOnly(status, unit_id, incident) == status

\* _UNIT_STATUS after notify_dispatch(unit_id, incident)
notify_dispatch(status, unit_id, incident) ==
    IF unit_id \in DOMAIN status
    THEN [status EXCEPT ![unit_id] = Assigned(DictGet(incident, "id", PyNone))]
    ELSE status

\* the record notify_dispatch returns
DispatchRecord(unit_id, incident) ==
    [unit_id |-> unit_id, incident_id |-> DictGet(incident, "id", PyNone),
     location |-> DictGet(incident, "location", PyNone), status |-> "queued"]

\* _UNIT_STATUS after release_unit(unit_id)
release_unit(status, unit_id) ==
    IF unit_id \in DOMAIN status
    THEN [status EXCEPT ![unit_id] = Available]
    ELSE status

NotifyDispatch ==
    /\ \E unit_id \in CallerUnitIds, incident \in DispatchIncidents :
         /\ unit_status' = notify_dispatch(unit_status, unit_id, incident)
         /\ tool' = [op |-> "notify_dispatch",
                     result |-> DispatchRecord(unit_id, incident)]
    /\ UNCHANGED <<workers, GOOGLE_API_KEY, USE_GEMINI, now, gemini_backoff_until, inv, pc,
                   envelope, history, submitted, runs, issued>>

ReleaseUnit ==
    /\ \E unit_id \in CallerUnitIds :
         /\ unit_status' = release_unit(unit_status, unit_id)
         /\ tool' = [op |-> "release_unit", unit_id |-> unit_id]
    /\ UNCHANGED <<workers, GOOGLE_API_KEY, USE_GEMINI, now, gemini_backoff_until, inv, pc,
                   envelope, history, submitted, runs, issued>>

\* a planner call after a planner call reads the same snapshot and returns
\* nothing new; the planner is asked once the snapshot is settled
PlannerIdle == tool.op \in {"none", "notify_dispatch", "release_unit"}

\* recommend_units_for_incident(incident, limit) on the current snapshot
RecommendUnits ==
    /\ PlannerIdle
    /\ \E incident \in PlanIncidents, limit \in RankLimits,
          jit \in JitterDrawsFor(unit_status) :
         tool' = [op |-> "recommend_units_for_incident", incident |-> incident,
                  limit |-> limit, jit |-> jit,
                  result |-> recommend_units_for_incident(unit_status, incident,
                                                          limit, jit)]
    /\ UNCHANGED <<workers, GOOGLE_API_KEY, USE_GEMINI, now, gemini_backoff_until, inv, pc,
                   envelope, unit_status, history, submitted, runs, issued>>

\* plan_relief_response(incident) on the current snapshot
PlanRelief ==
    /\ PlannerIdle
    /\ \E incident \in PlanIncidents, jit \in JitterDrawsFor(unit_status) :
         tool' = [op |-> "plan_relief_response", incident |-> incident, jit |-> jit,
                  result |-> plan_relief_response(unit_status, incident, 2, jit)]
    /\ UNCHANGED <<workers, GOOGLE_API_KEY, USE_GEMINI, now, gemini_backoff_until, inv, pc,
                   envelope, unit_status, history, submitted, runs, issued>>

ToolsInit == Init /\ GOOGLE_API_KEY /\ USE_GEMINI

ToolsNext == NotifyDispatch \/ ReleaseUnit \/ RecommendUnits \/ PlanRelief

SpecTools == ToolsInit /\ [][ToolsNext]_vars

---------------------------------------------------------------------------
(* The unit status over time: units are dispatched and released, and the   *)
(* available units or a plan are asked for on the snapshot reached.        *)

\* the unit_type arguments of get_available_units
UnitTypeFilters == {PyNone, PyStr("fire"), PyStr(" EMS "), PyStr("boat")}

\* the limit arguments of get_available_units
UnitLimits == {PyNone, PyInt(0), PyInt(1)}

\* get_available_units(unit_type, limit) on the current snapshot
GetAvailableUnits ==
    /\ PlannerIdle
    /\ \E unit_type \in UnitTypeFilters, limit \in UnitLimits,
          jit \in JitterDrawsFor(unit_status) :
         tool' = [op |-> "get_available_units", unit_type |-> unit_type,
                  limit |-> limit, jit |-> jit,
                  result |-> get_available_units(unit_status, unit_type, limit, jit)]
    /\ UNCHANGED <<workers, GOOGLE_API_KEY, USE_GEMINI, now, gemini_backoff_until, inv, pc,
                   envelope, unit_status, history, submitted, runs, issued>>

UnitsNext == NotifyDispatch \/ ReleaseUnit \/ GetAvailableUnits \/ PlanRelief

SpecUnits == ToolsInit /\ [][UnitsNext]_vars

---------------------------------------------------------------------------
(* The invoker on its own: runs of the three LLM agents' _run_gemini       *)
(* invocations in pipeline order, with the backend calls counted and a     *)
(* wider choice of error messages.                                         *)

\* str(e) of the exceptions, rate-limit signatures in several spellings
InvokerErrorMessages ==
    ErrorMessages \cup {"Quota exceeded", "RATE LIMIT reached"}

\* the agent whose handle_envelope orchestrate calls after this one
AgentAfter(agent) ==
    CASE agent = DispatchName -> ResourceName
      [] agent = ResourceName -> SummaryName
      [] agent = SummaryName -> "done"

\* orchestrate starts on its first agent
InvokerStart ==
    /\ pc \in {"idle", "done"}
    /\ pc' = DispatchName
    /\ inv' = NoInvocation
    /\ issued' = 0
    /\ UNCHANGED <<workers, GOOGLE_API_KEY, USE_GEMINI, now, gemini_backoff_until, envelope,
                   unit_status, history, submitted, runs, tool>>

\* the agent reaches _run_gemini and its availability gate
InvokerEnter ==
    /\ \E agent \in LLMAgents :
         /\ pc = agent
         /\ inv.phase = "none"
         /\ inv' = RunGeminiEnter(agent)
    /\ UNCHANGED <<workers, GOOGLE_API_KEY, USE_GEMINI, now, gemini_backoff_until, pc,
                   envelope, unit_status, history, submitted, runs, issued, tool>>

\* the next model of the chain is called and raises
InvokerRaises ==
    /\ \E agent \in LLMAgents, msg \in InvokerErrorMessages :
         /\ pc = agent
         /\ inv.agent = agent
         /\ inv.phase = "loop"
         /\ AttemptRaises(agent, msg)
    /\ issued' = issued + 1
    /\ UNCHANGED <<workers, GOOGLE_API_KEY, USE_GEMINI, now, pc, envelope, unit_status,
                   history, submitted, runs, tool>>

\* the next model of the chain is called and answers
InvokerAnswers ==
    /\ \E agent \in LLMAgents :
       \E response \in Responses(agent) :
         /\ pc = agent
         /\ inv.agent = agent
         /\ inv.phase = "loop"
         /\ AttemptAnswers(agent, response)
    /\ issued' = issued + 1
    /\ UNCHANGED <<workers, GOOGLE_API_KEY, USE_GEMINI, now, pc, envelope, unit_status,
                   history, submitted, runs, tool>>

\* _run_gemini has returned; the agent finishes and orchestrate moves on
InvokerReturn ==
    /\ \E agent \in LLMAgents :
         /\ pc = agent
         /\ inv.agent = agent
         /\ inv.phase = "returned"
         /\ pc' = AgentAfter(agent)
    /\ inv' = NoInvocation
    /\ UNCHANGED <<workers, GOOGLE_API_KEY, USE_GEMINI, now, gemini_backoff_until, envelope,
                   unit_status, history, submitted, runs, issued, tool>>

InvokerNext ==
    \/ Tick
    \/ InvokerStart
    \/ InvokerEnter
    \/ InvokerRaises
    \/ InvokerAnswers
    \/ InvokerReturn

SpecInvoker == Init /\ [][InvokerNext]_vars

\* every backend call that was issued comes back, with an answer or an error
FairInvoker == SpecInvoker /\ WF_vars(InvokerRaises \/ InvokerAnswers)

---------------------------------------------------------------------------
(* Properties of the invoker, stated on the running invocation inv.        *)

\* the running invocation has called every model of its chain and each raised
AllRaised ==
    /\ inv.phase = "returned"
    /\ inv.calls # <<>>
    /\ Len(inv.calls) = Len(ModelChain(inv.agent))
    /\ \A i \in 1..Len(inv.calls) : inv.calls[i].err # PyNone

\* C2 as the specification states it: no backend call is issued while the
\* clock is before the backoff deadline, the rest of a chain whose earlier
\* model raised a rate-limit error included.
C2_NoCallBeforeDeadline ==
    \A i \in 1..Len(inv.calls) : ~inv.calls[i].in_backoff

\* C3: once the backoff has been armed, an invocation that starts before the
\* deadline returns the disabled sentinel without a backend call, whichever
\* agent runs it; one that starts at or after the deadline calls the backend.
C3_BackoffIdempotence ==
    (inv.phase # "none" /\ inv.until_at_start > 0) =>
        IF inv.before_deadline
        THEN /\ inv.phase = "returned"
             /\ inv.calls = <<>>
             /\ inv.result = "[Gemini disabled]"
        ELSE (GOOGLE_API_KEY /\ USE_GEMINI /\ inv.phase = "returned") =>
                 inv.calls # <<>>

\* a second agent is turned away inside the window armed by the first
C3_Witness ==
    /\ inv.agent = ResourceName
    /\ inv.phase = "returned"
    /\ inv.before_deadline
    /\ now > 0
    /\ inv.calls = <<>>

\* calls resume at the deadline
C3_Resumed ==
    /\ inv.until_at_start > 0
    /\ ~inv.before_deadline
    /\ now = inv.until_at_start
    /\ inv.calls # <<>>

\* C4: without a credential, with the feature flag off, or entered before the
\* backoff deadline, _run_gemini returns exactly "[Gemini disabled]" to its
\* agent, has issued no backend call and has left the deadline as it was.
C4_AvailabilityGate ==
    (inv.phase # "none"
     /\ (~GOOGLE_API_KEY \/ ~USE_GEMINI \/ inv.before_deadline)) =>
        /\ inv.phase = "returned"
        /\ pc = inv.agent
        /\ inv.result = "[Gemini disabled]"
        /\ inv.calls = <<>>
        /\ gemini_backoff_until = inv.until_at_start

\* the flag is off although a credential is configured
C4_Witness ==
    /\ GOOGLE_API_KEY
    /\ ~USE_GEMINI
    /\ inv.phase = "returned"
    /\ inv.result = "[Gemini disabled]"

\* C5: the models are called in the order of the chain, each only after all
\* before it raised; when the first two of three raise and the third answers
\* with text, the result is that text trimmed and the last error is the
\* second model's.
C5_ModelChainOrdering ==
    inv.phase # "none" =>
        LET chain == ModelChain(inv.agent)
            calls == inv.calls
            n == Len(calls)
        IN  /\ n <= Len(chain)
            /\ \A i \in 1..n : calls[i].model = chain[i]
            /\ \A i \in 1..n : i < n => calls[i].err # PyNone
            /\ (/\ inv.phase = "returned"
                /\ n = 3
                /\ calls[3].err = PyNone
                /\ Truthy(calls[3].response.text)) =>
                   /\ inv.result = Strip(calls[3].response.text.s)
                   /\ inv.last_error = calls[2].err.s

\* two different errors, then an answer with text
C5_Witness ==
    /\ inv.phase = "returned"
    /\ Len(inv.calls) = 3
    /\ inv.calls[3].err = PyNone
    /\ Truthy(inv.calls[3].response.text)
    /\ inv.calls[1].err # inv.calls[2].err
    /\ inv.calls[2].err # PyStr("")
    /\ inv.result # ""

\* C6 as stated: when every model raises, the result is "[Gemini error: "
\* followed by the error text of the last model and "]".
C6_SentinelNamesLastError ==
    AllRaised =>
        /\ pc = inv.agent
        /\ inv.result = "[Gemini error: "
                        \o inv.calls[Len(inv.calls)].err.s \o "]"
        /\ StartsWith(inv.result, "[Gemini")

\* C6 amended: ... followed by the error text of the last model, or by
\* "unavailable" when that text is empty, and "]"; it starts with "[Gemini".
C6_SentinelNamesLastErrorOrUnavailable ==
    AllRaised =>
        LET last == inv.calls[Len(inv.calls)].err.s
        IN  /\ pc = inv.agent
            /\ inv.result = "[Gemini error: "
                            \o (IF last = "" THEN "unavailable" ELSE last) \o "]"
            /\ StartsWith(inv.result, "[Gemini")

\* every model raised, the last with a message
C6_Witness ==
    /\ AllRaised
    /\ inv.calls[Len(inv.calls)].err = PyStr("connection reset")
    /\ inv.calls[1].err # inv.calls[Len(inv.calls)].err

\* every model raised, the last with an empty message
C6_EmptyMessage ==
    /\ AllRaised
    /\ inv.calls[Len(inv.calls)].err = PyStr("")

---------------------------------------------------------------------------
(* Properties of the pipeline agents.                                      *)

\* a value is a non-empty string
NonEmptyStr(v) == v.t = "str" /\ v.s # ""

\* C1 as the specification states it: once Dispatch, Resource and Summary
\* have handled the envelope, content holds a non-empty summary, a non-empty
\* recommendation, a resources list, a non-empty resource_summary and a
\* display_summary of at most 60 characters, whatever the backend did.
C1_TotalFallback ==
    pc \in {DecisionName, "done"} =>
        LET content == envelope.content
        IN  /\ NonEmptyStr(DictGet(content, "summary", PyNone))
            /\ NonEmptyStr(DictGet(content, "recommendation", PyNone))
            /\ DictGet(content, "resources", PyNone).t = "list"
            /\ NonEmptyStr(DictGet(content, "resource_summary", PyNone))
            /\ DictGet(content, "display_summary", PyNone).t = "str"
            /\ Len(DictGet(content, "display_summary", PyStr("")).s) <= 60

\* the invoker's result parses as an object whose summary and recommendation
\* are both non-empty strings
UsableDispatchAnswer(result) ==
    LET parsed == JsonLoads(result)
    IN  /\ parsed.ok
        /\ parsed.v.t = "dict"
        /\ NonEmptyStr(DictGet(parsed.v.d, "summary", PyNone))
        /\ NonEmptyStr(DictGet(parsed.v.d, "recommendation", PyNone))

\* C7 as the specification states it: when DispatchAgent writes its fields,
\* they are the backend's only if the result parses with both fields
\* non-empty, and the Planner's summary and recommendation otherwise.
C7_DispatchFallback ==
    [][(pc = DispatchName /\ pc' = ResourceName) =>
          IF UsableDispatchAnswer(inv.result)
          THEN LET d == JsonLoads(inv.result).v.d
               IN  /\ envelope'.content.summary = d.summary
                   /\ envelope'.content.recommendation = d.recommendation
          ELSE \E fallback \in PlannerOutcomes[unit_status][envelope.content.incident] :
                   /\ envelope'.content.summary = PyStr(fallback.summary)
                   /\ envelope'.content.recommendation = PyStr(fallback.recommendation)
      ]_vars

\* C8 as the specification states it: no handle_envelope raises, so no
\* orchestrate run ends without its final envelope.
C8_NoAbort == pc # "aborted"

---------------------------------------------------------------------------
(* Properties of the DecisionAgent.                                        *)

\* C9: after n decisions, through either entry point, the history is the
\* last min(n, 10) submitted records in arrival order; after 15 the five
\* oldest are gone; the length never exceeds 10.
C9_BoundedHistory ==
    LET n == Len(submitted)
        k == IF n < 10 THEN n ELSE 10
    IN  /\ Len(history) = k
        /\ Len(history) <= 10
        /\ \A i \in 1..k : history[i] = submitted[n - k + i]
        /\ n = 15 =>
               \A j \in 1..5 : \A i \in 1..Len(history) : history[i] # submitted[j]

\* 15 valid decisions, the last through handle_decision and an earlier one
\* through handle_envelope
C9_Witness ==
    /\ Len(submitted) = 15
    /\ \A i \in 1..15 : submitted[i].status = "success"
    /\ Len(history) = 10
    /\ history[1] = submitted[6]
    /\ envelope.trace # <<>>
    /\ envelope.trace[1].message.timestamp < 14

\* C10: handle_envelope returns an envelope whose decision_status is success
\* for SEND and HOLD and error for anything else, a missing action included,
\* with a decision_message that names the action; the record is in the trace
\* and in the history until ten later records have pushed it out.
C10_InvalidDecisionAction ==
    envelope.trace # <<>> =>
        LET content == envelope.content
            action == DictGet(content, "action", PyNone)
            last == envelope.trace[Len(envelope.trace)]
            later == Len(submitted) - (last.message.timestamp + 1)
        IN  /\ last.agent = "Decision-Agent"
            /\ last.message.action = action
            /\ PyStr(last.message.status) = content.decision_status
            /\ PyStr(last.message.message) = content.decision_message
            /\ IF action \in {PyStr("SEND"), PyStr("HOLD")}
               THEN content.decision_status = PyStr("success")
               ELSE /\ content.decision_status = PyStr("error")
                    /\ Contains(content.decision_message.s,
                                IF action = PyNone THEN "None" ELSE action.s)
            /\ later < 10 => \E i \in 1..Len(history) : history[i] = last.message

\* MAYBE was submitted through handle_envelope and recorded
C10_Witness ==
    /\ envelope.trace # <<>>
    /\ DictGet(envelope.content, "action", PyNone) = PyStr("MAYBE")
    /\ envelope.content.decision_status = PyStr("error")
    /\ envelope.content.decision_message = PyStr("Unknown action: MAYBE")
    /\ history # <<>>
    /\ history[Len(history)] = envelope.trace[1].message

---------------------------------------------------------------------------
(* Properties of the envelope.                                             *)

\* the agents of get_a2a_orchestrator that have returned the envelope of the
\* current run
AgentsReturned ==
    CASE pc = "ResQ-Agent" -> <<>>
      [] pc = "aborted" -> <<>>
      [] pc = "Resource-Agent" -> <<"ResQ-Agent">>
      [] pc = "Summary-Agent" -> <<"ResQ-Agent", "Resource-Agent">>
      [] pc = "Decision-Agent" -> <<"ResQ-Agent", "Resource-Agent", "Summary-Agent">>
      [] pc = "done" ->
           <<"ResQ-Agent", "Resource-Agent", "Summary-Agent", "Decision-Agent">>

\* C11: the trace of a run started with an empty trace holds one entry per
\* agent that has returned the envelope, in invocation order, each naming
\* its agent: four entries once the default run is over.
C11_TraceCompleteness ==
    pc # "idle" =>
        /\ Len(envelope.trace) = Len(AgentsReturned)
        /\ \A i \in 1..Len(envelope.trace) :
               envelope.trace[i].agent = AgentsReturned[i]
        /\ pc = "done" => Len(envelope.trace) = 4

\* a run is over and its trace ends with the DecisionAgent's entry
C11_Witness ==
    /\ pc = "done"
    /\ Len(envelope.trace) = 4
    /\ envelope.trace[1].agent = "ResQ-Agent"
    /\ envelope.trace[4].agent = "Decision-Agent"

---------------------------------------------------------------------------
(* Properties of the planner and of the unit status map.                   *)

\* the unit's capability set or its type has "fire"
IsFireUnit(unit) == "fire" \in unit.capabilities \/ Contains(unit.type, "fire")

\* what C12 says of a planner call for the fire incident: the top-ranked
\* unit is a fire unit, no other unit is ranked before a fire unit, and the
\* recommendation names Fire-1 or Fire-2
FireRankedFirst ==
    /\ (tool.op = "recommend_units_for_incident" /\ tool.incident = IncidentFire
        /\ tool.result # <<>>) =>
           /\ IsFireUnit(tool.result[1])
           /\ tool.result[1].id \in {"Fire-1", "Fire-2"}
           /\ \A i, j \in 1..Len(tool.result) :
                  (i < j /\ IsFireUnit(tool.result[j])) => IsFireUnit(tool.result[i])
    /\ (tool.op = "plan_relief_response" /\ tool.incident = IncidentFire
        /\ tool.result.resources # <<>>) =>
           tool.result.recommendation \in
               {"Dispatch Fire-1 to Sector 7.", "Dispatch Fire-2 to Sector 7."}

\* C12 as stated: for every unit-status snapshot and every jitter draw the
\* top-ranked unit for the fire incident is a fire unit, and Fire-1 and
\* Fire-2 outrank Ambulance-2 and Rescue-3.
C12_FireUnitRankedFirst == FireRankedFirst

\* C12 amended: ... for every snapshot in which Fire-1 or Fire-2 is
\* available and every jitter draw ...
C12_FireUnitRankedFirstIfAvailable ==
    (AvailableUnits(unit_status) \cap {"Fire-1", "Fire-2"} # {}) => FireRankedFirst

\* Fire-1 is out, Fire-2 leads the full ranking for the fire incident
C12_Witness ==
    /\ tool.op = "recommend_units_for_incident"
    /\ tool.incident = IncidentFire
    /\ tool.limit = 4
    /\ unit_status["Fire-1"].status = "assigned"
    /\ Len(tool.result) = 3
    /\ tool.result[1].id = "Fire-2"

C14_NoDoubleAssignment ==
    [][\A u \in UnitIds :
          unit_status[u].status = "assigned" =>
              \/ unit_status'[u] = unit_status[u]
              \/ /\ unit_status'[u].status = "available"
                 /\ tool'.op = "release_unit"
      ]_vars

---------------------------------------------------------------------------
(* Properties of the Summary and Resource agents.                          *)

\* "<urgency> <type> <location>: <recommendation, or summary when the
\* recommendation is empty>" for the content the SummaryAgent reads
AlertMessage(content) ==
    LET incident == DictGet(content, "incident", EmptyDict)
        urgency == DictGet(content, "urgency", PyStr("CRITICAL")).s
        type == DictGet(incident, "type", PyStr("")).s
        location == DictGet(incident, "location", PyStr("")).s
        recommendation == DictGet(content, "recommendation", PyStr("")).s
        summary == DictGet(content, "summary", PyStr("")).s
    IN  Strip(Strip(urgency \o " " \o type \o " " \o location) \o ": "
              \o (IF recommendation # "" THEN recommendation ELSE summary))

\* C15: when the invoker result carries the "[Gemini" sentinel, the
\* display_summary the SummaryAgent writes has at most 60 characters: it is
\* the alert message itself when that has at most 60 characters and its
\* first 57 characters followed by "..." otherwise.
C15_DisplayAlertBound ==
    [][(pc = SummaryName /\ pc' = DecisionName
        /\ StartsWith(inv.result, "[Gemini")) =>
          LET message == AlertMessage(envelope.content)
              shown == envelope'.content.display_summary.s
          IN  /\ Len(shown) <= 60
              /\ IF Len(message) <= 60
                 THEN shown = message
                 ELSE shown = SubSeq(message, 1, 57) \o "..."
      ]_vars

\* without a credential, the hold recommendation is cut to 57 characters
\* and the ellipsis
C15_Witness ==
    /\ ~GOOGLE_API_KEY
    /\ pc = DecisionName
    /\ envelope.content.display_summary
           = PyStr("CRITICAL: Hold and escalate to manual supervisor; no unit...")
    /\ Len(envelope.content.display_summary.s) = 60

---------------------------------------------------------------------------
(* Properties of the invoker driven on its own.                            *)

\* the step is a backend call of the running invocation that raised
CallRaised ==
    /\ inv.phase = "loop"
    /\ Len(inv'.calls) = Len(inv.calls) + 1
    /\ inv'.calls[Len(inv'.calls)].err # PyNone

\* C16: a call that raises sets the deadline to now + 45 exactly when its
\* message has "429", "quota" or "rate limit" in any letter case; every
\* other step (another error, an answer, a gated entry) leaves the deadline
\* alone; an invocation of any agent entered before the deadline issues no
\* call.
C16_FailureClassification ==
    [][/\ IF CallRaised
             /\ inv'.calls[Len(inv'.calls)].err.s \in
                    {"429 Too Many Requests", "Quota exceeded", "RATE LIMIT reached"}
          THEN gemini_backoff_until' = now + 45
          ELSE gemini_backoff_until' = gemini_backoff_until
       /\ (inv'.phase # "none" /\ inv'.before_deadline) => inv'.calls = <<>>
      ]_vars

\* the ResourceAgent's second model raised an upper-case rate-limit error
\* and the deadline is 45 after the current time
C16_Witness ==
    /\ inv.agent = ResourceName
    /\ Len(inv.calls) = 2
    /\ inv.calls[1].err = PyStr("connection reset")
    /\ inv.calls[2].err = PyStr("RATE LIMIT reached")
    /\ now = 30
    /\ gemini_backoff_until = now + 45

C18_NonEmptyResult ==
    inv.phase = "returned" =>
        \/ inv.result = "[Gemini disabled]"
        \/ AllRaised /\ StartsWith(inv.result, "[Gemini error: ")
        \/ /\ inv.calls # <<>>
           /\ inv.calls[Len(inv.calls)].err = PyNone
           /\ inv.result # ""

---------------------------------------------------------------------------
(* Properties of the ResourceAgent in the pipeline.                        *)

\* the invoker's text is a JSON object
IsJsonObject(text) == JsonLoads(text).ok /\ JsonLoads(text).v.t = "dict"

\* the resources value of the object the text parses to
BackendResources(text) == DictGet(JsonLoads(text).v.d, "resources", PyList(<<>>))

\* the content carries resources and resource_summary of one Planner outcome
PlannerSubstituted(content, status, incident) ==
    \E f \in PlannerOutcomes[status][incident] :
        /\ content.resources = PyList(f.resources)
        /\ content.resource_summary = PyStr(f.resource_summary)

\* C19: the step on which the ResourceAgent hands over writes both keys;
\* on a sentinel, an empty text, a text that is no JSON object, or an object
\* whose resources value is empty, they are the Planner's ranked resources
\* and resource_summary; on an object with a non-empty resources list they
\* are that list and the summary of the same object.
C19_ResourceFallback ==
    [][(pc = ResourceName /\ pc' = SummaryName) =>
         /\ {"resources", "resource_summary"} \subseteq DOMAIN envelope'.content
         /\ (\/ inv.result \in {"", "[Gemini disabled]"}
             \/ StartsWith(inv.result, "[Gemini error: ")
             \/ ~IsJsonObject(inv.result)
             \/ BackendResources(inv.result) \in {PyList(<<>>), PyStr(""), PyNone})
            => PlannerSubstituted(envelope'.content, unit_status,
                                  envelope.content.incident)
         /\ (/\ IsJsonObject(inv.result)
             /\ BackendResources(inv.result).t = "list"
             /\ BackendResources(inv.result).l # <<>>)
            => /\ envelope'.content.resources = BackendResources(inv.result)
               /\ envelope'.content.resource_summary =
                      DictGet(JsonLoads(inv.result).v.d, "summary", PyStr(""))
      ]_vars

\* with no credential configured the ResourceAgent has handed over two
\* ranked units of the Planner
C19_Witness ==
    /\ ~GOOGLE_API_KEY
    /\ pc = SummaryName
    /\ inv.phase = "none"
    /\ PlannerSubstituted(envelope.content, unit_status, envelope.content.incident)
    /\ Len(envelope.content.resources.l) = 2

---------------------------------------------------------------------------
(* Properties of the ranking.                                              *)

\* the score the ranking rule gives registry entry i for an incident
RuleScore(i, incident) ==
    LET type == normalize(DictGet(incident, "type", PyNone))
        urgency == normalize(DictGet(incident, "urgency", PyNone))
    IN  (IF type \in UNIT_REGISTRY[i].capabilities THEN 4 ELSE 0)
        + (IF Contains(UNIT_REGISTRY[i].type, type) THEN 3 ELSE 0)
        + (IF urgency = "critical" \/ urgency = "high" THEN 2 ELSE 0)

\* the registry entries that are available and score above 0
Qualifying(status, incident) ==
    {i \in 1..Len(UNIT_REGISTRY) :
        /\ status[UNIT_REGISTRY[i].id].status = "available"
        /\ RuleScore(i, incident) > 0}

\* the ETA of registry entry i under the jitter drawn for it
RuleEta(i, jit) ==
    Max(3, UNIT_REGISTRY[i].base_eta + 3 + jit[UNIT_REGISTRY[i].id])

\* entry j comes before entry i: higher score, ties in registry order
BeforeInRegistry(j, i, incident) ==
    \/ RuleScore(j, incident) > RuleScore(i, incident)
    \/ RuleScore(j, incident) = RuleScore(i, incident) /\ j < i

\* entry j comes before entry i: higher score, ties by lower ETA, equal ETAs
\* in registry order
BeforeByEta(j, i, incident, jit) ==
    \/ RuleScore(j, incident) > RuleScore(i, incident)
    \/ /\ RuleScore(j, incident) = RuleScore(i, incident)
       /\ \/ RuleEta(j, jit) < RuleEta(i, jit)
          \/ RuleEta(j, jit) = RuleEta(i, jit) /\ j < i

\* the number of units a ranking of the qualifying entries Q returns
RankingLength(Q, limit) ==
    IF Cardinality(Q) < limit THEN Cardinality(Q) ELSE limit

\* C20 as the specification states it: the ranking returned is the first N
\* of the available units scoring above 0 (+4 capability, +3 type, +2
\* urgency), by score descending with equal scores in registry order.
C20_RegistryOrderTies ==
    tool.op = "recommend_units_for_incident" =>
        LET Q == Qualifying(unit_status, tool.incident)
        IN  /\ Len(tool.result) = RankingLength(Q, tool.limit)
            /\ \A k \in 1..Len(tool.result) : \E i \in Q :
                 /\ tool.result[k].id = UNIT_REGISTRY[i].id
                 /\ Cardinality({j \in Q : BeforeInRegistry(j, i, tool.incident)})
                        = k - 1

\* C20: the ranking returned is the first N of the available units scoring
\* above 0 (+4 capability, +3 type, +2 urgency), by score descending with
\* equal scores in ascending order of ETA, and in registry order only when
\* the ETAs are equal too.
C20_EtaOrderTies ==
    tool.op = "recommend_units_for_incident" =>
        LET Q == Qualifying(unit_status, tool.incident)
        IN  /\ Len(tool.result) = RankingLength(Q, tool.limit)
            /\ \A k \in 1..Len(tool.result) : \E i \in Q :
                 /\ tool.result[k].id = UNIT_REGISTRY[i].id
                 /\ tool.result[k].eta_minutes = RuleEta(i, tool.jit)
                 /\ Cardinality({j \in Q :
                        BeforeByEta(j, i, tool.incident, tool.jit)}) = k - 1

\* all four units free, an incident of high urgency and no type, no jitter:
\* every unit scores 2 and the top two are Fire-1 (ETA 8) and Ambulance-2
\* (ETA 9), ahead of Fire-2 (ETA 10)
C20_Witness ==
    /\ tool.op = "recommend_units_for_incident"
    /\ tool.incident = IncidentUntyped
    /\ tool.limit = 2
    /\ AvailableUnits(unit_status) = UnitIds
    /\ \A u \in UnitIds : tool.jit[u] = 0
    /\ Len(tool.result) = 2
    /\ tool.result[1].id = "Fire-1"
    /\ tool.result[2].id = "Ambulance-2"

---------------------------------------------------------------------------
(* Properties of the unit status over time.                                *)

\* the ids of a sequence of units
IdsOf(units) == {units[k].id : k \in 1..Len(units)}

\* the unit is named in a plan: in its resources or in its recommendation
NamedInPlan(plan, unit_id) ==
    \/ \E k \in 1..Len(plan.resources) : plan.resources[k] = unit_id
    \/ Contains(plan.recommendation, unit_id)

\* C21: get_available_units returns only units that are available when it
\* is called, in ascending order of ETA; notify_dispatch on a registered
\* unit makes it assigned and it stays assigned on every step that is not a
\* release_unit on it; no plan names an assigned unit; release_unit makes the
\* unit available, and get_available_units without filter and limit returns
\* every available unit under every jitter draw, the released one included.
C21_AvailabilityOverTime ==
    [][/\ tool'.op = "get_available_units" =>
            /\ IdsOf(tool'.result) \subseteq AvailableUnits(unit_status)
            /\ \A k \in 1..(Len(tool'.result) - 1) :
                   tool'.result[k].eta_minutes <= tool'.result[k + 1].eta_minutes
            /\ (tool'.unit_type = PyNone /\ tool'.limit = PyNone) =>
                   IdsOf(tool'.result) = AvailableUnits(unit_status)
       /\ (tool'.op = "notify_dispatch" /\ tool'.result.unit_id \in UnitIds) =>
            unit_status'[tool'.result.unit_id].status = "assigned"
       /\ \A u \in UnitIds :
            (/\ unit_status[u].status = "assigned"
             /\ ~(tool'.op = "release_unit" /\ tool'.unit_id = u))
            => unit_status'[u].status = "assigned"
       /\ tool'.op = "plan_relief_response" =>
            \A u \in UnitIds :
                unit_status[u].status = "assigned" => ~NamedInPlan(tool'.result, u)
       /\ (tool'.op = "release_unit" /\ tool'.unit_id \in UnitIds) =>
            /\ unit_status'[tool'.unit_id].status = "available"
            /\ tool'.unit_id \in
                   IdsOf(get_available_units(unit_status', PyNone, PyNone,
                                             [u \in UnitIds |-> 0]))
      ]_vars

\* with Fire-1 dispatched and not released, the plan for the fire incident
\* names Fire-2 only
C21_Witness ==
    /\ tool.op = "plan_relief_response"
    /\ tool.incident = IncidentFire
    /\ unit_status["Fire-1"].status = "assigned"
    /\ unit_status["Fire-2"].status = "available"
    /\ tool.result.resources = <<"Fire-2">>
    /\ ~NamedInPlan(tool.result, "Fire-1")

---------------------------------------------------------------------------
(* Properties of the planner's synthesis.                                  *)

\* the ids of the units recommend_units_for_incident ranks for a plan
RankedIds(status, incident, jit) ==
    LET ranked == recommend_units_for_incident(status, incident, 2, jit)
    IN  [k \in 1..Len(ranked) |-> ranked[k].id]

\* C22: in every plan, if a unit qualifies then resources is the list of
\* the ranked unit ids, one or two of them and no id twice, and the
\* recommendation is 'Dispatch <resources[0]> to <location>.'; if none
\* qualifies then resources is empty and the recommendation is the hold
\* message; resources is empty exactly when the recommendation is the hold
\* message.
C22_PlannerSynthesis ==
    tool.op = "plan_relief_response" =>
        LET plan == tool.result
            location == DictGet(tool.incident, "location", PyStr("the scene")).s
            hold == "Hold and escalate to manual supervisor; no units free."
        IN  /\ Qualifying(unit_status, tool.incident) # {} =>
                  /\ plan.resources = RankedIds(unit_status, tool.incident, tool.jit)
                  /\ Len(plan.resources) \in 1..2
                  /\ \A k, l \in 1..Len(plan.resources) :
                         plan.resources[k] = plan.resources[l] => k = l
                  /\ \A k \in 1..Len(plan.resources) :
                         \E i \in Qualifying(unit_status, tool.incident) :
                             plan.resources[k] = UNIT_REGISTRY[i].id
                  /\ plan.recommendation =
                         "Dispatch " \o plan.resources[1] \o " to " \o location \o "."
            /\ Qualifying(unit_status, tool.incident) = {} =>
                  /\ plan.resources = <<>>
                  /\ plan.recommendation = hold
            /\ plan.resources = <<>> <=> plan.recommendation = hold

\* the medical incident of low urgency with the ambulance dispatched and
\* the fire units free: no unit qualifies and the plan holds
C22_Witness ==
    /\ tool.op = "plan_relief_response"
    /\ tool.incident = IncidentMedical
    /\ unit_status["Ambulance-2"].status = "assigned"
    /\ unit_status["Fire-1"].status = "available"
    /\ tool.result.resources = <<>>
    /\ tool.result.recommendation = HoldRecommendation

---------------------------------------------------------------------------
(* Properties of the hops of a run.                                        *)

\* the envelope names this hop
HopIs(sender, receiver) ==
    envelope.sender = sender /\ envelope.receiver = receiver

\* C23: in a run of get_a2a_orchestrator started with receiver None, while
\* agent number i runs the receiver is its name and the sender is None for
\* i = 1 and the name of agent i - 1 after that; an agent that has returned
\* has left both as they were, so that after the run the receiver is
\* Decision-Agent and the sender is Summary-Agent; and every step within a
\* run that changes the receiver sets the sender to the receiver held before.
C23_HopRotation ==
    /\ [](/\ (pc = "ResQ-Agent" /\ inv.phase # "none") =>
                HopIs(PyNone, PyStr("ResQ-Agent"))
          /\ (pc = "aborted" \/ (pc = "Resource-Agent" /\ inv.phase = "none")) =>
                HopIs(PyNone, PyStr("ResQ-Agent"))
          /\ (pc = "Resource-Agent" /\ inv.phase # "none") =>
                HopIs(PyStr("ResQ-Agent"), PyStr("Resource-Agent"))
          /\ (pc = "Summary-Agent" /\ inv.phase = "none") =>
                HopIs(PyStr("ResQ-Agent"), PyStr("Resource-Agent"))
          /\ (pc = "Summary-Agent" /\ inv.phase # "none") =>
                HopIs(PyStr("Resource-Agent"), PyStr("Summary-Agent"))
          /\ pc = "Decision-Agent" =>
                HopIs(PyStr("Resource-Agent"), PyStr("Summary-Agent"))
          /\ pc = "done" =>
                HopIs(PyStr("Summary-Agent"), PyStr("Decision-Agent")))
    /\ [][(/\ pc \in {"ResQ-Agent", "Resource-Agent", "Summary-Agent",
                      "Decision-Agent"}
           /\ envelope'.receiver # envelope.receiver)
          => /\ envelope'.sender = envelope.receiver
             /\ envelope'.receiver = PyStr(pc)]_vars

\* a run is over: the last hop was from the SummaryAgent to the
\* DecisionAgent
C23_Witness ==
    /\ pc = "done"
    /\ Len(envelope.trace) = 4
    /\ HopIs(PyStr("Summary-Agent"), PyStr("Decision-Agent"))

---------------------------------------------------------------------------
(* Properties of the DecisionAgent under threads.                          *)

\* C24 as the specification states it: whatever the interleaving of the
\* threads' appends and truncations, the history read at any moment (by
\* get_history, which takes no step of its own) holds at most 10 records,
\* and each of the 10 most recently appended records is in it.
C24_AtomicHistory ==
    /\ Len(history) <= 10
    /\ \A i \in 1..Len(submitted) :
           i > Len(submitted) - 10 =>
               \E j \in 1..Len(history) : history[j] = submitted[i]

---------------------------------------------------------------------------
(* Properties of the decision history under polling.                       *)

\* the record a pass without an action and without an incident_id leaves
IsRunRecord(entry) ==
    /\ entry.action = PyNone
    /\ entry.incident_id = PyNone
    /\ entry.status = "error"
    /\ entry.message = "Unknown action: None"

\* C25: the step on which a run passes through the DecisionAgent appends
\* exactly one record to the history (the oldest of ten leaves), and on an
\* incident envelope, which has no action key, that record has status error
\* and message 'Unknown action: None'; once the ten records appended last
\* all come from such runs, no SEND or HOLD record is left in the history.
C25_RunsFillHistory ==
    /\ [][(pc = "Decision-Agent" /\ pc' = "done") =>
            /\ Len(submitted') = Len(submitted) + 1
            /\ history' # <<>>
            /\ history'[Len(history')] = submitted'[Len(submitted')]
            /\ Len(history') = (IF Len(history) < 10 THEN Len(history) + 1 ELSE 10)
            /\ \A i \in 1..(Len(history') - 1) :
                   history'[i] = history[Len(history) - (Len(history') - 1) + i]
            /\ "action" \notin DOMAIN envelope.content =>
                   IsRunRecord(history'[Len(history')])
         ]_vars
    /\ []((/\ Len(submitted) >= 10
           /\ \A i \in (Len(submitted) - 9)..Len(submitted) :
                  IsRunRecord(submitted[i]))
          => \A j \in 1..Len(history) :
                 history[j].status # "success" /\ IsRunRecord(history[j]))

\* a SEND and a HOLD decision, then ten polls with no credential: the
\* history holds ten records and none of the two decisions
C25_Witness ==
    /\ pc = "done"
    /\ runs = 10
    /\ Len(submitted) = 12
    /\ submitted[1].action = PyStr("SEND")
    /\ submitted[2].action = PyStr("HOLD")
    /\ Len(history) = 10
    /\ \A j \in 1..10 : IsRunRecord(history[j])

---------------------------------------------------------------------------
(* Properties of a run in which two agents fall back.                      *)

\* C26 as the specification implies it: once the DispatchAgent and the
\* ResourceAgent have both fallen back to the Planner in one run, the
\* recommendation written names the first of the resources written, and it
\* is the hold message exactly when the resources are empty.
C26_PlannerCallsAgree ==
    (~GOOGLE_API_KEY /\ pc \in {"Summary-Agent", "Decision-Agent", "done"}) =>
        LET content == envelope.content
            location == DictGet(content.incident, "location", PyStr("the scene")).s
            hold == "Hold and escalate to manual supervisor; no units free."
        IN  /\ content.resources.l # <<>> =>
                  content.recommendation =
                      PyStr("Dispatch " \o content.resources.l[1] \o " to "
                            \o location \o ".")
            /\ content.resources.l = <<>> <=> content.recommendation = PyStr(hold)

============================================================================
